---------------------------- MODULE Spec2Model ----------------------------
(***************************************************************************)
(* A model of the CGCookie downloader.                                     *)
(*                                                                         *)
(*   - cli_downloader.py, the __main__ script: automated login, course     *)
(*     enumeration, the lesson loop with its text fallback, the automated  *)
(*     download, the operator-assisted (mouse click) fallback, the         *)
(*     course-files download, the final moves and skipped_data.json.       *)
(*   - downloader/utils.py, download_course: the web-wrapped variant.      *)
(*   - get_wistia_video_url and sanitize_filename as operators.            *)
(*                                                                         *)
(* Specifications:                                                         *)
(*   Spec        cli_downloader.py exactly as written.  The name `logger`  *)
(*               used at line 322 is bound nowhere in the module (only     *)
(*               `logging` is imported), so reaching line 322 raises       *)
(*               NameError and ends the run.                               *)
(*   SpecLogger  the same script with the name `logger` bound (line 322    *)
(*               logs and falls through).  It is the only way to exercise  *)
(*               lines 323-370 and 391-396, which Spec never reaches.      *)
(*   SpecWeb     downloader/utils.py download_course, called by the index  *)
(*               view of downloader/views.py.                              *)
(*   SpecWistia  get_wistia_video_url applied to bounded asset lists.      *)
(*   SpecCourseFiles  cli_downloader.py download_course_files applied to   *)
(*               bounded lists of modal anchors.                           *)
(*   SpecDetails  cli_downloader.py get_course_details applied to bounded  *)
(*               course pages, followed by enumerate(video_data, 1).       *)
(*   SpecManual  cli_downloader.py download_video_manually with its        *)
(*               check_new_files poll of the downloads directory.          *)
(***************************************************************************)
EXTENDS Integers, Sequences, FiniteSets, TLC

VARIABLES
    pc,                         \* position of the script
    abortSite,                  \* where an uncaught exception ended the run
    browserOpen,                \* the selenium session has not been quit
    opsOnClosed,                \* operations attempted on a quit session
    course_urls,                \* config.yml urls: how many there are
    course_data,                \* list of [course_title, video_data]
    ci,                         \* position of `for course in course_data`
    idx,                        \* enumerate(video_data, 1)
    wistia_id,                  \* the module-level name wistia_id
    pageSeen,                   \* <<course, idx, kind of page the browser showed>>
    disk,                       \* files the run has put in the course folders
    downloads,                  \* files in ~/Downloads
    download_button_loc,
    download_button_loc_2,
    calibrations,               \* times the operator was asked for the coordinates
    clickLog,                   \* the pair of coordinates of each replay
    manually_downloaded_files,  \* dict old path -> new path, in insertion order
    moveIdx,                    \* position of the final move loop
    skipped_data,
    skipped_file,               \* contents of skipped_data.json
    jsonWrites,                 \* times skipped_data.json was written
    cfAttempts,                 \* <<course, idx>> of each download_course_files call
    apiRequests,                \* lessons for which the video-asset API was asked
    videoRequests,              \* lessons for which a video URL was requested
    skippedExisting,            \* lessons skipped because the target exists
    prefix_option,
    skip_if_exists,
    video_lessons,              \* utils.py: the links get_video_lessons returned
    lesson_name,                \* utils.py: extract_lesson_name's result
    returned,                   \* utils.py: what download_course returned
    assets,                     \* SpecWistia: the asset descriptors
    video_url,                  \* SpecWistia: what get_wistia_video_url returned
    links,                      \* download_course_files: the modal's anchors
    link_details,               \* download_course_files: (url, filename) pairs
    lk,                         \* position of `for url, filename in link_details`
    files_path,               \* the files of course_files/
    skipLog,                    \* urls of the "Skipping a file" warnings
    page_source,                \* get_course_details: the accordion's children
    ch,                         \* position of `for chapter in chapters`
    scraped,                    \* get_course_details: its local video_data
    en,                         \* position of enumerate(video_data, 1)
    prefixLog,                  \* <<idx, data>> of each iteration of line 290
    downloads_path,             \* what os.listdir(downloads_path) last returned
    old_files,                  \* download_video_manually: the snapshot
    elapsed,                    \* check_new_files: seconds slept
    downloaded,                 \* download_video_manually: check_new_files' result
    prompts,                    \* times input("Download did not start ...") ran
    message                     \* views.py: the message index renders

vars == <<pc, abortSite, browserOpen, opsOnClosed, course_urls, course_data, ci, idx,
          wistia_id, pageSeen, disk, downloads, download_button_loc,
          download_button_loc_2, calibrations, clickLog, manually_downloaded_files,
          moveIdx, skipped_data, skipped_file, jsonWrites, cfAttempts, apiRequests,
          videoRequests, skippedExisting, prefix_option, skip_if_exists,
          video_lessons, lesson_name, returned, assets, video_url,
          links, link_details, lk, files_path, skipLog,
          page_source, ch, scraped, en, prefixLog,
          downloads_path, old_files, elapsed, downloaded, prompts, message>>

cliVars == <<course_urls, course_data, ci, pageSeen, downloads, download_button_loc,
             download_button_loc_2, calibrations, clickLog, manually_downloaded_files,
             moveIdx, skipped_data, skipped_file, jsonWrites>>

wistiaVars == <<assets, video_url>>

courseFilesVars == <<links, link_details, lk, files_path, skipLog>>

detailsVars == <<page_source, ch, scraped, en, prefixLog>>

manualVars == <<downloads_path, old_files, elapsed, downloaded, prompts>>

\* what cli_downloader.py does not touch
otherVars == <<returned, assets, video_url, courseFilesVars, detailsVars,
               manualVars, message>>

-----------------------------------------------------------------------------
(* Bounds *)

MaxCourses == 2          \* course urls in config.yml
MaxLessons == 2          \* lessons of one run, all courses together; every
                         \* course sampled has at least one lesson
MaxAssets == 3           \* asset descriptors in one API answer
MaxSize == 2             \* the size field of a descriptor
MaxAnchors == 3          \* anchors in the course-files modal
MaxSiblings == 4         \* children of the course-list accordion
MaxChapterLessons == 2   \* li.lesson entries of one collapsible container
MaxPolls == 2            \* one-second sleeps of check_new_files before its
                         \* timeout (120 in the script)

(* What the environment can show *)

\* lesson titles as scraped: a plain one, and one with a character of the
\* illegal class and a character only the second substitution removes.  A
\* title holding a path separator is not sampled: open() at line 172 cannot
\* create a file under a directory that does not exist.
Titles == { <<"a">>, <<"b", ":", "#">> }

\* video: a .wistia_embed element with a data-video-id;  emptyid: the element
\* with an empty or missing attribute;  text: no element, a lesson-content-inner
\* block;  none: neither.
PageKinds == {"video", "emptyid", "text", "none"}

\* screen positions; the two controls are at different positions
Points == { <<10, 20>>, <<30, 40>> }
DlNames == {"d1"}

Urls == {"u1", "u2"}

None == <<"None">>
Unbound == <<"Unbound">>
EmptyId == <<>>

-----------------------------------------------------------------------------
(* Strings are sequences of one-character strings. *)

IllegalChars == {"<", ">", ":", "\"", "/", "\\", "|", "?", "*"}
WordChars == {"a", "b", "m", "p", "h", "t", "l", "_",
              "0", "1", "2", "3", "4", "5", "6", "7", "8", "9"}
SpaceChars == {" "}

Digits == <<"0", "1", "2", "3", "4", "5", "6", "7", "8", "9">>

RECURSIVE Decimal(_)
Decimal(n) == IF n < 10 THEN <<Digits[n + 1]>>
              ELSE Decimal(n \div 10) \o <<Digits[(n % 10) + 1]>>

\* f"{idx:02}"
Fmt02(n) == IF n < 10 THEN <<"0">> \o Decimal(n) ELSE Decimal(n)

ReplaceIllegal(name) ==
    [i \in 1..Len(name) |-> IF name[i] \in IllegalChars THEN "-" ELSE name[i]]

KeepChar(c) == c \in WordChars \cup SpaceChars \cup {".", "-"}

sanitize_filename(name) == SelectSeq(ReplaceIllegal(name), KeepChar)

Mp4 == <<".", "m", "p", "4">>
Html == <<".", "h", "t", "m", "l">>

\* f"{idx:02}-{title}.ext" if prefix_option else f"{title}.ext"
Filename(i, title, ext) ==
    IF prefix_option THEN Fmt02(i) \o <<"-">> \o title \o ext ELSE title \o ext

HasSuffix(s, suf) ==
    /\ Len(s) >= Len(suf)
    /\ SubSeq(s, Len(s) - Len(suf) + 1, Len(s)) = suf

HasPrefix(s, pre) ==
    /\ Len(s) >= Len(pre)
    /\ SubSeq(s, 1, Len(pre)) = pre

HasIllegal(s) == \E i \in 1..Len(s) : s[i] \in IllegalChars

Path(c, name) == [course |-> c, name |-> name]

-----------------------------------------------------------------------------
(* get_wistia_video_url: max(assets, key=lambda x: x['size'])['url'].       *)
(* Python's max keeps the first of the items whose key is the greatest.     *)

RECURSIVE MaxBySizeLast(_, _, _)
MaxBySizeLast(as, i, best) ==
    IF i > Len(as) THEN best
    ELSE MaxBySizeLast(as, i + 1, IF as[i].size >= as[best].size THEN i ELSE best)

RECURSIVE MaxBySize(_, _, _)
MaxBySize(as, i, best) ==
    IF i > Len(as) THEN best
    ELSE MaxBySize(as, i + 1, IF as[i].size > as[best].size THEN i ELSE best)

get_wistia_video_url(as) == as[MaxBySize(as, 1, 1)].url

-----------------------------------------------------------------------------
(* cli_downloader.py, __main__ *)

CourseFilesTitle == <<"C", "o", "u", "r", "s", "e", " ", "F", "i", "l", "e", "s">>

LessonRecord(c, i, title) ==
    [course_title |-> c, lesson_title |-> title, lesson_link |-> <<c, i>>]

CourseFilesRecord(c) ==
    [course_title |-> c, lesson_title |-> CourseFilesTitle,
     video_url |-> None, lesson_link |-> None]

video_data == course_data[ci].video_data
lesson_title == video_data[idx].title

TotalLessons == IF course_data = <<>> THEN 0
                ELSE LET n == Len(course_data)
                         RECURSIVE Sum(_)
                         Sum(k) == IF k = 0 THEN 0
                                   ELSE Len(course_data[k].video_data) + Sum(k - 1)
                     IN Sum(n)

Abort(site) ==
    /\ pc' = "aborted"
    /\ abortSite' = site

InitCommon ==
    /\ abortSite = ""
    /\ browserOpen = TRUE
    /\ opsOnClosed = 0
    /\ course_data = <<>>
    /\ ci = 1
    /\ idx = 1
    /\ wistia_id = Unbound
    /\ pageSeen = {}
    /\ disk = {}
    /\ downloads = {}
    /\ download_button_loc = None
    /\ download_button_loc_2 = None
    /\ calibrations = 0
    /\ clickLog = <<>>
    /\ manually_downloaded_files = <<>>
    /\ moveIdx = 1
    /\ skipped_data = <<>>
    /\ skipped_file = <<>>
    /\ jsonWrites = 0
    /\ cfAttempts = <<>>
    /\ apiRequests = {}
    /\ videoRequests = {}
    /\ skippedExisting = {}
    /\ video_lessons = <<>>
    /\ lesson_name = None
    /\ returned = None
    /\ video_url = ""
    /\ link_details = <<>>
    /\ lk = 1
    /\ files_path = {}
    /\ skipLog = <<>>
    /\ ch = 1
    /\ scraped = <<>>
    /\ en = 1
    /\ prefixLog = <<>>
    /\ downloads_path = {}
    /\ old_files = {}
    /\ elapsed = 0
    /\ downloaded = "unbound"
    /\ prompts = 0
    /\ message = ""

\* lines 242-255: the configuration, the browser, the fixed options
Init ==
    /\ InitCommon
    /\ pc = "login"
    /\ course_urls \in 1..MaxCourses
    /\ course_urls <= MaxLessons
    /\ prefix_option = TRUE
    /\ skip_if_exists = TRUE
    /\ assets = <<>>
    /\ links = <<>>
    /\ page_source = <<>>

\* lines 75-93, called at 247: on a TimeoutException the session is quit and
\* the function returns normally.
login_and_redirect ==
    /\ pc = "login"
    /\ \E marker \in BOOLEAN :
          browserOpen' = marker
    /\ pc' = "enumerate"
    /\ UNCHANGED <<abortSite, opsOnClosed, idx, wistia_id, disk, cfAttempts,
                   apiRequests, videoRequests, skippedExisting, prefix_option,
                   skip_if_exists, video_lessons, lesson_name>>
    /\ UNCHANGED cliVars
    /\ UNCHANGED otherVars

\* lines 258-266 with 99-128: one course url.  browser.get on a quit session
\* raises; wait_for_element raises TimeoutException when the list never shows.
get_course_details ==
    /\ pc = "enumerate"
    /\ Len(course_data) < course_urls
    /\ IF ~browserOpen
       THEN /\ opsOnClosed' = opsOnClosed + 1
            /\ Abort("get_course_details")
            /\ UNCHANGED course_data
       ELSE /\ UNCHANGED opsOnClosed
            /\ \E listed \in BOOLEAN :
                 IF ~listed
                 THEN /\ Abort("get_course_details")
                      /\ UNCHANGED course_data
                 ELSE \E n \in 1..MaxLessons :
                        /\ TotalLessons + n + (course_urls - Len(course_data) - 1)
                              <= MaxLessons
                        /\ \E titles \in [1..n -> Titles] :
                             course_data' = Append(course_data,
                                [course_title |-> Len(course_data) + 1,
                                 video_data |-> [i \in 1..n |->
                                     [title |-> titles[i],
                                      link |-> <<Len(course_data) + 1, i>>]]])
                        /\ UNCHANGED <<pc, abortSite>>
    /\ UNCHANGED <<browserOpen, course_urls, ci, idx, wistia_id, pageSeen, disk,
                   downloads, download_button_loc, download_button_loc_2,
                   calibrations, clickLog, manually_downloaded_files, moveIdx,
                   skipped_data, skipped_file, jsonWrites, cfAttempts, apiRequests,
                   videoRequests, skippedExisting, prefix_option, skip_if_exists,
                   video_lessons, lesson_name>>
    /\ UNCHANGED otherVars

\* lines 268-282: the locals of the download process
start_download ==
    /\ pc = "enumerate"
    /\ Len(course_data) = course_urls
    /\ download_button_loc' = None
    /\ download_button_loc_2' = None
    /\ manually_downloaded_files' = <<>>
    /\ skipped_data' = <<>>
    /\ ci' = 1
    /\ pc' = "course"
    /\ UNCHANGED <<abortSite, browserOpen, opsOnClosed, course_urls, course_data, idx,
                   wistia_id, pageSeen, disk, downloads, calibrations, clickLog,
                   moveIdx, skipped_file, jsonWrites, cfAttempts, apiRequests,
                   videoRequests, skippedExisting, prefix_option, skip_if_exists,
                   video_lessons, lesson_name>>
    /\ UNCHANGED otherVars

next_course_resets_skipped ==
    /\ pc = "course"
    /\ IF ci <= Len(course_data)
       THEN /\ idx' = 1
            /\ skipped_data' = <<>>
            /\ pc' = "lesson"
       ELSE /\ pc' = "move_files"
            /\ UNCHANGED <<idx, skipped_data>>
    /\ UNCHANGED <<abortSite, browserOpen, opsOnClosed, course_urls, course_data, ci,
                   wistia_id, pageSeen, disk, downloads, download_button_loc,
                   download_button_loc_2, calibrations, clickLog,
                   manually_downloaded_files, moveIdx, skipped_file, jsonWrites,
                   cfAttempts, apiRequests, videoRequests, skippedExisting,
                   prefix_option, skip_if_exists, video_lessons, lesson_name>>
    /\ UNCHANGED otherVars

\* lines 283-290: the head of the course loop
next_course ==
    /\ pc = "course"
    /\ IF ci <= Len(course_data)
       THEN /\ idx' = 1
            /\ pc' = "lesson"
       ELSE /\ pc' = "move_files"
            /\ UNCHANGED idx
    /\ UNCHANGED <<abortSite, browserOpen, opsOnClosed, wistia_id, disk, cfAttempts,
                   apiRequests, videoRequests, skippedExisting, prefix_option,
                   skip_if_exists, video_lessons, lesson_name>>
    /\ UNCHANGED cliVars
    /\ UNCHANGED otherVars

\* line 290: video_data is exhausted
end_of_lessons ==
    /\ pc = "lesson"
    /\ idx > Len(video_data)
    /\ ci' = ci + 1
    /\ pc' = "course"
    /\ UNCHANGED <<abortSite, browserOpen, opsOnClosed, course_urls, course_data, idx,
                   wistia_id, pageSeen, disk, downloads, download_button_loc,
                   download_button_loc_2, calibrations, clickLog,
                   manually_downloaded_files, moveIdx, skipped_data, skipped_file,
                   jsonWrites, cfAttempts, apiRequests, videoRequests,
                   skippedExisting, prefix_option, skip_if_exists, video_lessons,
                   lesson_name>>
    /\ UNCHANGED otherVars

\* lines 290-319: open the lesson, try extract_wistia_id; when it raises, the
\* handler saves the page as .html if it has a content block and appends a
\* skipped record either way.  The handler does not assign wistia_id.
open_lesson ==
    /\ pc = "lesson"
    /\ idx <= Len(video_data)
    /\ \E page \in PageKinds :
         /\ pageSeen' = pageSeen \cup {<<ci, idx, page>>}
         /\ CASE page = "video" ->
                   /\ wistia_id' = <<ci, idx>>
                   /\ UNCHANGED <<disk, skipped_data>>
              [] page = "emptyid" ->
                   /\ wistia_id' = EmptyId
                   /\ UNCHANGED <<disk, skipped_data>>
              [] page = "text" ->
                   /\ disk' = disk \cup
                        {Path(ci, Filename(idx, sanitize_filename(lesson_title), Html))}
                   /\ skipped_data' =
                        Append(skipped_data, LessonRecord(ci, idx, lesson_title))
                   /\ UNCHANGED wistia_id
              [] page = "none" ->
                   /\ skipped_data' =
                        Append(skipped_data, LessonRecord(ci, idx, lesson_title))
                   /\ UNCHANGED <<disk, wistia_id>>
    /\ pc' = "if_wistia_id"
    /\ UNCHANGED <<abortSite, browserOpen, opsOnClosed, course_urls, course_data, ci,
                   idx, downloads, download_button_loc, download_button_loc_2,
                   calibrations, clickLog, manually_downloaded_files, moveIdx,
                   skipped_file, jsonWrites, cfAttempts, apiRequests, videoRequests,
                   skippedExisting, prefix_option, skip_if_exists, video_lessons,
                   lesson_name>>
    /\ UNCHANGED otherVars

\* line 320: `if wistia_id:`.  The name is unbound until extract_wistia_id has
\* returned once (NameError); afterwards it holds whatever the last successful
\* extraction returned.
if_wistia_id ==
    /\ pc = "if_wistia_id"
    /\ IF wistia_id = Unbound
       THEN Abort("wistia_id")
       ELSE /\ pc' = IF wistia_id # EmptyId THEN "log_downloading" ELSE "course_files"
            /\ UNCHANGED abortSite
    /\ UNCHANGED <<browserOpen, opsOnClosed, idx, wistia_id, disk, cfAttempts,
                   apiRequests, videoRequests, skippedExisting, prefix_option,
                   skip_if_exists, video_lessons, lesson_name>>
    /\ UNCHANGED cliVars
    /\ UNCHANGED otherVars

\* lines 321-322 as written: logger is not defined
log_downloading_NameError ==
    /\ pc = "log_downloading"
    /\ Abort("logger")
    /\ UNCHANGED <<browserOpen, opsOnClosed, idx, wistia_id, disk, cfAttempts,
                   apiRequests, videoRequests, skippedExisting, prefix_option,
                   skip_if_exists, video_lessons, lesson_name>>
    /\ UNCHANGED cliVars
    /\ UNCHANGED otherVars

\* lines 321-323 with logger bound
log_downloading ==
    /\ pc = "log_downloading"
    /\ pc' = "skip_check"
    /\ UNCHANGED <<abortSite, browserOpen, opsOnClosed, idx, wistia_id, disk,
                   cfAttempts, apiRequests, videoRequests, skippedExisting,
                   prefix_option, skip_if_exists, video_lessons, lesson_name>>
    /\ UNCHANGED cliVars
    /\ UNCHANGED otherVars

\* lines 323-334: the target exists (it was there before the run, or the run
\* wrote it) and skip_if_exists: record, `continue`.  The file name is built
\* from lesson_title as scraped.
skip_if_exists_check ==
    /\ pc = "skip_check"
    /\ LET full_path == Path(ci, Filename(idx, lesson_title, Mp4)) IN
       \E before \in BOOLEAN :
         IF skip_if_exists /\ (before \/ full_path \in disk)
         THEN /\ skipped_data' =
                   Append(skipped_data, LessonRecord(ci, idx, lesson_title))
              /\ skippedExisting' = skippedExisting \cup {<<ci, idx>>}
              /\ idx' = idx + 1
              /\ pc' = "lesson"
         ELSE /\ ~before
              /\ pc' = "try_download"
              /\ UNCHANGED <<skipped_data, skippedExisting, idx>>
    /\ UNCHANGED <<abortSite, disk, browserOpen, opsOnClosed, course_urls, course_data, ci,
                   wistia_id, pageSeen, downloads, download_button_loc,
                   download_button_loc_2, calibrations, clickLog,
                   manually_downloaded_files, moveIdx, skipped_file, jsonWrites,
                   cfAttempts, apiRequests, videoRequests, prefix_option,
                   skip_if_exists, video_lessons, lesson_name>>
    /\ UNCHANGED otherVars

\* lines 335-342: get_wistia_video_url then download_video_from_url, under a
\* bare except.  api_error: the API request or max() over its answer raises;
\* stream_error: the video URL is requested, the file is open and iter_content
\* raises, leaving the truncated file; ok.
try_download ==
    /\ pc = "try_download"
    /\ LET full_path == Path(ci, Filename(idx, lesson_title, Mp4)) IN
       \E outcome \in {"api_error", "stream_error", "ok"} :
         /\ apiRequests' = apiRequests \cup {<<ci, idx>>}
         /\ videoRequests' = IF outcome = "api_error" THEN videoRequests
                             ELSE videoRequests \cup {<<ci, idx>>}
         /\ disk' = IF outcome \in {"stream_error", "ok"}
                    THEN disk \cup {full_path} ELSE disk
         /\ pc' = IF outcome = "ok" THEN "course_files" ELSE "manual_fallback"
    /\ UNCHANGED <<abortSite, browserOpen, opsOnClosed, idx, wistia_id, cfAttempts,
                   skippedExisting, prefix_option, skip_if_exists, video_lessons,
                   lesson_name>>
    /\ UNCHANGED cliVars
    /\ UNCHANGED otherVars

calibrate_always ==
    /\ pc = "manual_fallback"
    /\ \E p1 \in Points, p2 \in Points :
         /\ p1 # p2
         /\ download_button_loc' = p1
         /\ download_button_loc_2' = p2
    /\ calibrations' = calibrations + 1
    /\ pc' = "manual_download"
    /\ UNCHANGED <<abortSite, browserOpen, opsOnClosed, course_urls, course_data, ci,
                   idx, wistia_id, pageSeen, disk, downloads, clickLog,
                   manually_downloaded_files, moveIdx, skipped_data, skipped_file,
                   jsonWrites, cfAttempts, apiRequests, videoRequests,
                   skippedExisting, prefix_option, skip_if_exists, video_lessons,
                   lesson_name>>
    /\ UNCHANGED otherVars

\* lines 343-349: `if not download_button_loc:` ask the operator for the two
\* positions (pyautogui.position() is a non-empty named tuple, hence truthy)
calibrate ==
    /\ pc = "manual_fallback"
    /\ IF download_button_loc = None
       THEN /\ \E p1 \in Points, p2 \in Points :
                 /\ p1 # p2
                 /\ download_button_loc' = p1
                 /\ download_button_loc_2' = p2
            /\ calibrations' = calibrations + 1
       ELSE UNCHANGED <<download_button_loc, download_button_loc_2, calibrations>>
    /\ pc' = "manual_download"
    /\ UNCHANGED <<abortSite, browserOpen, opsOnClosed, course_urls, course_data, ci,
                   idx, wistia_id, pageSeen, disk, downloads, clickLog,
                   manually_downloaded_files, moveIdx, skipped_data, skipped_file,
                   jsonWrites, cfAttempts, apiRequests, videoRequests,
                   skippedExisting, prefix_option, skip_if_exists, video_lessons,
                   lesson_name>>
    /\ UNCHANGED otherVars

\* dict assignment d[old] = new: a key already present keeps its position
DictPut(d, old, new) ==
    IF \E k \in 1..Len(d) : d[k].old = old
    THEN [k \in 1..Len(d) |-> IF d[k].old = old THEN [old |-> old, new |-> new]
                                                 ELSE d[k]]
    ELSE Append(d, [old |-> old, new |-> new])

\* lines 351-370 with 221-234: snapshot ~/Downloads, replay the two clicks,
\* poll, take one of the files that are new since the snapshot and queue its
\* move.  What is raised inside the try (here list(new_file)[0] on an empty
\* list, when no new file is there) is caught and the lesson recorded as
\* skipped.
manual_download ==
    /\ pc = "manual_download"
    /\    /\ clickLog' =
               Append(clickLog, <<download_button_loc, download_button_loc_2>>)
          /\ \E after \in SUBSET DlNames :
               /\ downloads' = after
               /\ LET new_file == after \ downloads
                      new_name == Filename(idx, sanitize_filename(lesson_title), Mp4)
                  IN IF new_file = {}
                     THEN /\ skipped_data' =
                               Append(skipped_data,
                                      LessonRecord(ci, idx, lesson_title))
                          /\ UNCHANGED manually_downloaded_files
                     ELSE /\ \E f \in new_file :
                               manually_downloaded_files' =
                                  DictPut(manually_downloaded_files, f,
                                          Path(ci, new_name))
                          /\ UNCHANGED skipped_data
    /\ pc' = "course_files"
    /\ UNCHANGED <<abortSite, browserOpen, opsOnClosed, course_urls, course_data, ci,
                   idx, wistia_id, pageSeen, disk, download_button_loc,
                   download_button_loc_2, calibrations, moveIdx, skipped_file,
                   jsonWrites, cfAttempts, apiRequests, videoRequests,
                   skippedExisting, prefix_option, skip_if_exists, video_lessons,
                   lesson_name>>
    /\ UNCHANGED otherVars

\* lines 372-386: on the first lesson download_course_files, a failure being
\* recorded; then the next lesson
course_files ==
    /\ pc = "course_files"
    /\ IF idx = 1
       THEN /\ cfAttempts' = Append(cfAttempts, <<ci, idx>>)
            /\ \E found \in BOOLEAN :
                 skipped_data' = IF found THEN skipped_data
                                 ELSE Append(skipped_data, CourseFilesRecord(ci))
       ELSE UNCHANGED <<cfAttempts, skipped_data>>
    /\ idx' = idx + 1
    /\ pc' = "lesson"
    /\ UNCHANGED <<abortSite, browserOpen, opsOnClosed, course_urls, course_data, ci,
                   wistia_id, pageSeen, disk, downloads, download_button_loc,
                   download_button_loc_2, calibrations, clickLog,
                   manually_downloaded_files, moveIdx, skipped_file, jsonWrites,
                   apiRequests, videoRequests, skippedExisting, prefix_option,
                   skip_if_exists, video_lessons, lesson_name>>
    /\ UNCHANGED otherVars

\* lines 391-396: shutil.move of one queued file; a failure is only logged
move_file ==
    /\ pc = "move_files"
    /\ moveIdx <= Len(manually_downloaded_files)
    /\ LET item == manually_downloaded_files[moveIdx] IN
       IF item.old \in downloads
       THEN /\ downloads' = downloads \ {item.old}
            /\ disk' = disk \cup {item.new}
       ELSE UNCHANGED <<downloads, disk>>
    /\ moveIdx' = moveIdx + 1
    /\ UNCHANGED <<pc, abortSite, browserOpen, opsOnClosed, course_urls, course_data,
                   ci, idx, wistia_id, pageSeen, download_button_loc,
                   download_button_loc_2, calibrations, clickLog,
                   manually_downloaded_files, skipped_data, skipped_file, jsonWrites,
                   cfAttempts, apiRequests, videoRequests, skippedExisting,
                   prefix_option, skip_if_exists, video_lessons, lesson_name>>
    /\ UNCHANGED otherVars

\* lines 398-400: json.dump(skipped_data) once the move loop is over
save_skipped ==
    /\ pc = "move_files"
    /\ moveIdx > Len(manually_downloaded_files)
    /\ skipped_file' = skipped_data
    /\ jsonWrites' = jsonWrites + 1
    /\ pc' = "quit"
    /\ UNCHANGED <<abortSite, browserOpen, opsOnClosed, course_urls, course_data, ci,
                   idx, wistia_id, pageSeen, disk, downloads, download_button_loc,
                   download_button_loc_2, calibrations, clickLog,
                   manually_downloaded_files, moveIdx, skipped_data, cfAttempts,
                   apiRequests, videoRequests, skippedExisting, prefix_option,
                   skip_if_exists, video_lessons, lesson_name>>
    /\ UNCHANGED otherVars

\* line 402
browser_quit ==
    /\ pc = "quit"
    /\ browserOpen' = FALSE
    /\ pc' = "done"
    /\ UNCHANGED <<abortSite, opsOnClosed, idx, wistia_id, disk, cfAttempts,
                   apiRequests, videoRequests, skippedExisting, prefix_option,
                   skip_if_exists, video_lessons, lesson_name>>
    /\ UNCHANGED cliVars
    /\ UNCHANGED otherVars

Next ==
    \/ login_and_redirect
    \/ get_course_details
    \/ start_download
    \/ next_course
    \/ end_of_lessons
    \/ open_lesson
    \/ if_wistia_id
    \/ log_downloading_NameError
    \/ course_files
    \/ save_skipped
    \/ browser_quit

Spec == Init /\ [][Next]_vars

NextLogger ==
    \/ login_and_redirect
    \/ get_course_details
    \/ start_download
    \/ next_course
    \/ end_of_lessons
    \/ open_lesson
    \/ if_wistia_id
    \/ log_downloading
    \/ skip_if_exists_check
    \/ try_download
    \/ calibrate
    \/ manual_download
    \/ course_files
    \/ move_file
    \/ save_skipped
    \/ browser_quit

SpecLogger == Init /\ [][NextLogger]_vars

-----------------------------------------------------------------------------
(* downloader/utils.py, download_course *)

\* lines 113-118: the nine characters replaced by a dash
extract_lesson_name(text) == ReplaceIllegal(text)

webIdle == <<opsOnClosed, course_urls, course_data, ci, downloads,
               download_button_loc, download_button_loc_2, calibrations, clickLog,
               manually_downloaded_files, moveIdx, skipped_data, skipped_file,
               jsonWrites, courseFilesVars, detailsVars, manualVars>>

\* what download_course does not touch
webUnused == <<webIdle, message>>

\* utils.py 208: the value of the return statement, a str
DownloadCompleted ==
    <<"D", "o", "w", "n", "l", "o", "a", "d", " ",
      "c", "o", "m", "p", "l", "e", "t", "e", "d", " ",
      "s", "u", "c", "c", "e", "s", "s", "f", "u", "l", "l", "y", "!">>

\* views.py 21
IssueMessage ==
    "There was an issue with the download. Please ensure you're logged in and try again."

InitWeb ==
    /\ InitCommon
    /\ pc = "w_wait_login"
    /\ course_urls = 1
    /\ prefix_option \in BOOLEAN
    /\ skip_if_exists \in BOOLEAN
    /\ assets = <<>>
    /\ links = <<>>
    /\ page_source = <<>>

\* lines 162-172: wait for header.signed-in.  utils.py does not import
\* TimeoutException, so matching the raised exception against
\* `except TimeoutException` raises NameError: the handler body (quit, return
\* a pair) never runs and the exception leaves download_course.
web_wait_login ==
    /\ pc = "w_wait_login"
    /\ \E marker \in BOOLEAN :
         IF marker
         THEN /\ pc' = "w_details"
              /\ UNCHANGED abortSite
         ELSE Abort("TimeoutException")
    /\ UNCHANGED <<browserOpen, idx, wistia_id, pageSeen, disk, cfAttempts,
                   apiRequests, videoRequests, skippedExisting, prefix_option,
                   skip_if_exists, video_lessons, lesson_name, returned>>
    /\ UNCHANGED webUnused
    /\ UNCHANGED wistiaVars

\* lines 174-186: get_course_details (wait_for_element may time out), the
\* save folder, get_video_lessons
web_get_video_lessons ==
    /\ pc = "w_details"
    /\ \E listed \in BOOLEAN :
         IF ~listed
         THEN /\ Abort("get_course_details")
              /\ UNCHANGED <<video_lessons, idx>>
         ELSE /\ \E n \in 1..MaxLessons :
                   video_lessons' = [i \in 1..n |-> <<1, i>>]
              /\ idx' = 1
              /\ pc' = "w_lesson"
              /\ UNCHANGED abortSite
    /\ UNCHANGED <<browserOpen, wistia_id, pageSeen, disk, cfAttempts, apiRequests,
                   videoRequests, skippedExisting, prefix_option, skip_if_exists,
                   lesson_name, returned>>
    /\ UNCHANGED webUnused
    /\ UNCHANGED wistiaVars

\* lines 187-195: open the lesson; no .wistia_embed element: `continue`
web_open_lesson ==
    /\ pc = "w_lesson"
    /\ idx <= Len(video_lessons)
    /\ \E page \in PageKinds :
         /\ pageSeen' = pageSeen \cup {<<1, idx, page>>}
         /\ CASE page = "video" ->
                   /\ wistia_id' = <<1, idx>>
                   /\ pc' = "w_resolve"
                   /\ UNCHANGED idx
              [] page = "emptyid" ->
                   /\ wistia_id' = EmptyId
                   /\ idx' = idx + 1
                   /\ UNCHANGED pc
              [] OTHER ->
                   /\ idx' = idx + 1
                   /\ UNCHANGED <<pc, wistia_id>>
    /\ UNCHANGED <<abortSite, browserOpen, disk, cfAttempts, apiRequests,
                   videoRequests, skippedExisting, prefix_option, skip_if_exists,
                   video_lessons, lesson_name, returned>>
    /\ UNCHANGED webUnused
    /\ UNCHANGED wistiaVars

\* lines 196-197: the API is asked first, then the lesson name is read; what
\* either raises is not caught
web_resolve ==
    /\ pc = "w_resolve"
    /\ apiRequests' = apiRequests \cup {<<1, idx>>}
    /\ \E outcome \in {"api_error", "no_name", "ok"} :
         CASE outcome = "api_error" ->
                /\ Abort("get_wistia_video_url")
                /\ UNCHANGED lesson_name
           [] outcome = "no_name" ->
                /\ Abort("extract_lesson_name")
                /\ UNCHANGED lesson_name
           [] outcome = "ok" ->
                /\ \E text \in Titles : lesson_name' = extract_lesson_name(text)
                /\ pc' = "w_skip_check"
                /\ UNCHANGED abortSite
    /\ UNCHANGED <<browserOpen, idx, wistia_id, pageSeen, disk, cfAttempts,
                   videoRequests, skippedExisting, prefix_option, skip_if_exists,
                   video_lessons, returned>>
    /\ UNCHANGED webUnused
    /\ UNCHANGED wistiaVars

\* lines 198-201
web_skip_if_exists ==
    /\ pc = "w_skip_check"
    /\ LET full_path == Path(1, Filename(idx, lesson_name, Mp4)) IN
       \E before \in BOOLEAN :
         IF skip_if_exists /\ (before \/ full_path \in disk)
         THEN /\ skippedExisting' = skippedExisting \cup {<<1, idx>>}
              /\ idx' = idx + 1
              /\ pc' = "w_lesson"
         ELSE /\ pc' = "w_download"
              /\ UNCHANGED <<skippedExisting, idx>>
    /\ UNCHANGED <<abortSite, disk, browserOpen, wistia_id, pageSeen, cfAttempts,
                   apiRequests, videoRequests, prefix_option, skip_if_exists,
                   video_lessons, lesson_name, returned>>
    /\ UNCHANGED webUnused
    /\ UNCHANGED wistiaVars

\* lines 202-204: download_video_from_url, not under a try
web_download ==
    /\ pc = "w_download"
    /\ videoRequests' = videoRequests \cup {<<1, idx>>}
    /\ \E ok \in BOOLEAN :
         IF ok
         THEN /\ disk' = disk \cup {Path(1, Filename(idx, lesson_name, Mp4))}
              /\ idx' = idx + 1
              /\ pc' = "w_lesson"
              /\ UNCHANGED abortSite
         ELSE /\ Abort("download_video_from_url")
              /\ UNCHANGED <<disk, idx>>
    /\ UNCHANGED <<browserOpen, wistia_id, pageSeen, cfAttempts, apiRequests,
                   skippedExisting, prefix_option, skip_if_exists, video_lessons,
                   lesson_name, returned>>
    /\ UNCHANGED webUnused
    /\ UNCHANGED wistiaVars

\* line 206: once the loop is over
web_download_course_files ==
    /\ pc = "w_lesson"
    /\ idx > Len(video_lessons)
    /\ cfAttempts' = Append(cfAttempts, <<1, idx>>)
    /\ \E ok \in BOOLEAN :
         IF ok
         THEN /\ pc' = "w_return"
              /\ UNCHANGED abortSite
         ELSE Abort("download_course_files")
    /\ UNCHANGED <<browserOpen, idx, wistia_id, pageSeen, disk, apiRequests,
                   videoRequests, skippedExisting, prefix_option, skip_if_exists,
                   video_lessons, lesson_name, returned>>
    /\ UNCHANGED webUnused
    /\ UNCHANGED wistiaVars

\* lines 207-208: quit and return one string
web_return ==
    /\ pc = "w_return"
    /\ browserOpen' = FALSE
    /\ returned' = DownloadCompleted
    /\ pc' = "w_returned"
    /\ UNCHANGED <<abortSite, idx, wistia_id, pageSeen, disk, cfAttempts,
                   apiRequests, videoRequests, skippedExisting, prefix_option,
                   skip_if_exists, video_lessons, lesson_name>>
    /\ UNCHANGED webUnused
    /\ UNCHANGED wistiaVars

\* views.py 18-24: success, message = download_course(...).  The assignment
\* iterates the value: it needs exactly two items, and raises ValueError
\* otherwise.
index ==
    /\ pc = "w_returned"
    /\ IF Len(returned) = 2
       THEN /\ message' = IF returned[1] THEN returned[2] ELSE IssueMessage
            /\ pc' = "w_rendered"
            /\ UNCHANGED abortSite
       ELSE /\ Abort("index")
            /\ UNCHANGED message
    /\ UNCHANGED <<browserOpen, idx, wistia_id, pageSeen, disk, cfAttempts,
                   apiRequests, videoRequests, skippedExisting, prefix_option,
                   skip_if_exists, video_lessons, lesson_name, returned>>
    /\ UNCHANGED webIdle
    /\ UNCHANGED wistiaVars

NextWeb ==
    \/ web_wait_login
    \/ web_get_video_lessons
    \/ web_open_lesson
    \/ web_resolve
    \/ web_skip_if_exists
    \/ web_download
    \/ web_download_course_files
    \/ web_return
    \/ index

SpecWeb == InitWeb /\ [][NextWeb]_vars

-----------------------------------------------------------------------------
(* get_wistia_video_url on the asset lists an API answer can hold *)

AssetDescriptors == [url : Urls, size : 0..MaxSize]

AssetLists == UNION { [1..n -> AssetDescriptors] : n \in 1..MaxAssets }

InitWistia ==
    /\ InitCommon
    /\ pc = "wistia_call"
    /\ course_urls = 0
    /\ prefix_option = TRUE
    /\ skip_if_exists = TRUE
    /\ assets \in AssetLists
    /\ links = <<>>
    /\ page_source = <<>>

\* lines 155-158 (utils.py 99-102): the answer's assets, the url of the largest
call_get_wistia_video_url ==
    /\ pc = "wistia_call"
    /\ video_url' = get_wistia_video_url(assets)
    /\ pc' = "wistia_returned"
    /\ UNCHANGED <<abortSite, browserOpen, idx, wistia_id, pageSeen, disk, cfAttempts,
                   apiRequests, videoRequests, skippedExisting, prefix_option,
                   skip_if_exists, video_lessons, lesson_name, returned, assets>>
    /\ UNCHANGED webUnused

NextWistia == call_get_wistia_video_url

SpecWistia == InitWistia /\ [][NextWistia]_vars

-----------------------------------------------------------------------------
(* cli_downloader.py, download_course_files (lines 177-207) on its own.     *)
(* course_files/ starts empty; a file is [name, url]: its path under        *)
(* course_files/ and the url whose body it holds.                            *)

\* the textContent of an anchor: empty, blank, two names, and a name with a
\* leading blank.  A text holding a path separator is not sampled.
AnchorTexts == { <<>>, <<" ">>, <<"a">>, <<" ", "a">>, <<"b">> }

Anchors == [href : Urls, textContent : AnchorTexts]

AnchorLists == UNION { [1..n -> Anchors] : n \in 0..MaxAnchors }

\* str.strip()
RECURSIVE LStrip(_)
LStrip(s) == IF s # <<>> /\ Head(s) \in SpaceChars THEN LStrip(Tail(s)) ELSE s

RECURSIVE RStrip(_)
RStrip(s) == IF s # <<>> /\ s[Len(s)] \in SpaceChars
             THEN RStrip(SubSeq(s, 1, Len(s) - 1)) ELSE s

Strip(s) == RStrip(LStrip(s))

InitCourseFiles ==
    /\ InitCommon
    /\ pc = "cf_open"
    /\ course_urls = 0
    /\ prefix_option = TRUE
    /\ skip_if_exists = TRUE
    /\ assets = <<>>
    /\ links \in AnchorLists
    /\ page_source = <<>>

cfFrame == <<browserOpen, idx, wistia_id, pageSeen, disk, cfAttempts, apiRequests,
             videoRequests, skippedExisting, prefix_option, skip_if_exists,
             video_lessons, lesson_name, returned, assets, video_url,
             opsOnClosed, course_urls, course_data, ci, downloads,
             download_button_loc, download_button_loc_2, calibrations, clickLog,
             manually_downloaded_files, moveIdx, skipped_data, skipped_file,
             jsonWrites, detailsVars, manualVars, message>>

\* lines 184-196: the wait for the control (TimeoutException after 300 s),
\* the click, the anchors, the (href, trimmed text) pairs, the directory
cf_open ==
    /\ pc = "cf_open"
    /\ \E found \in BOOLEAN :
          IF found
          THEN /\ link_details' = [i \in 1..Len(links) |->
                                      <<links[i].href, Strip(links[i].textContent)>>]
               /\ pc' = "cf_loop"
               /\ UNCHANGED abortSite
          ELSE /\ Abort("Course Files control")
               /\ UNCHANGED link_details
    /\ UNCHANGED <<links, lk, files_path, skipLog>>
    /\ UNCHANGED cfFrame

\* open(path, 'wb') and the chunks: the file of that name now holds url's body
WriteFile(files, name, url) ==
    {f \in files : f.name # name} \cup {[name |-> name, url |-> url]}

\* lines 197-207: one iteration of the loop
cf_anchor ==
    /\ pc = "cf_loop"
    /\ lk <= Len(link_details)
    /\ LET url == link_details[lk][1]
           filename == link_details[lk][2]
       IN IF Strip(filename) = <<>>
          THEN \* lines 198-200
               /\ skipLog' = Append(skipLog, url)
               /\ lk' = lk + 1
               /\ UNCHANGED <<pc, abortSite, files_path>>
          ELSE \* lines 201-207; requests.get and the stream are not guarded
               \E ok \in BOOLEAN :
                  IF ok
                  THEN /\ files_path' = WriteFile(files_path, filename, url)
                       /\ lk' = lk + 1
                       /\ UNCHANGED <<pc, abortSite, skipLog>>
                  ELSE /\ Abort("requests.get")
                       /\ UNCHANGED <<lk, files_path, skipLog>>
    /\ UNCHANGED <<links, link_details>>
    /\ UNCHANGED cfFrame

\* the loop is over: the function returns None
cf_return ==
    /\ pc = "cf_loop"
    /\ lk > Len(link_details)
    /\ pc' = "cf_returned"
    /\ UNCHANGED <<abortSite, links, link_details, lk, files_path, skipLog>>
    /\ UNCHANGED cfFrame

NextCourseFiles ==
    \/ cf_open
    \/ cf_anchor
    \/ cf_return

SpecCourseFiles == InitCourseFiles /\ [][NextCourseFiles]_vars

-----------------------------------------------------------------------------
(* cli_downloader.py, get_course_details (lines 99-128) on its own, then    *)
(* the enumerate of line 290.  The page is the sequence of the accordion's  *)
(* children in document order; a lesson entry is an li.lesson with its      *)
(* a.lesson-link, whose href is unique in the page.                         *)

LessonTitle(j) == IF j % 2 = 1 THEN <<"a">> ELSE <<"b", ":", "#">>

\* the entries of the container at position q that holds c of them
LessonEntries(q, c) == [j \in 1..c |-> [title |-> LessonTitle(j), link |-> <<q, j>>]]

Heading == [class |-> "chapter-heading", count |-> 0]
OtherDiv == [class |-> "other", count |-> 0]
Collapse(c) == [class |-> "accordion-collapse", count |-> c]

Siblings == {Heading, OtherDiv} \cup {Collapse(c) : c \in 0..MaxChapterLessons}

Pages == UNION { [1..n -> Siblings] : n \in 0..MaxSiblings }

\* positions of the nodes of a class, in document order
RECURSIVE PositionsOf(_, _, _)
PositionsOf(page, class, q) ==
    IF q > Len(page) THEN <<>>
    ELSE (IF page[q].class = class THEN <<q>> ELSE <<>>)
         \o PositionsOf(page, class, q + 1)

\* soup.find_all("div", class_="chapter-heading")
chapters == PositionsOf(page_source, "chapter-heading", 1)

\* the first accordion-collapse of the page, whatever the heading
find_first_in_page(p) ==
    LET cs == PositionsOf(page_source, "accordion-collapse", 1)
    IN IF cs = <<>> THEN 0 ELSE cs[1]

\* chapter.find_next_sibling("div", class_="accordion-collapse"): the first
\* later sibling of that class, None (0) when there is none
find_next_sibling(p) ==
    LET later == {q \in (p + 1)..Len(page_source) :
                     page_source[q].class = "accordion-collapse"}
    IN IF later = {} THEN 0
       ELSE CHOOSE q \in later : \A r \in later : q <= r

InitDetails ==
    /\ InitCommon
    /\ pc = "gcd_loop"
    /\ course_urls = 0
    /\ prefix_option = TRUE
    /\ skip_if_exists = TRUE
    /\ assets = <<>>
    /\ links = <<>>
    /\ page_source \in Pages

gcdFrame == <<browserOpen, idx, wistia_id, pageSeen, disk, cfAttempts, apiRequests,
              videoRequests, skippedExisting, prefix_option, skip_if_exists,
              video_lessons, lesson_name, returned, assets, video_url,
              opsOnClosed, course_urls, course_data, ci, downloads,
              download_button_loc, download_button_loc_2, calibrations, clickLog,
              manually_downloaded_files, moveIdx, skipped_data, skipped_file,
              jsonWrites, courseFilesVars, manualVars, message>>

\* lines 121-126: one chapter; find_all("li", class_="lesson") on None raises
\* AttributeError
gcd_chapter ==
    /\ pc = "gcd_loop"
    /\ ch <= Len(chapters)
    /\ LET q == find_next_sibling(chapters[ch])
       IN IF q = 0
          THEN /\ Abort("find_next_sibling")
               /\ UNCHANGED <<ch, scraped>>
          ELSE /\ scraped' = scraped \o LessonEntries(q, page_source[q].count)
               /\ ch' = ch + 1
               /\ UNCHANGED <<pc, abortSite>>
    /\ UNCHANGED <<page_source, en, prefixLog>>
    /\ UNCHANGED gcdFrame

\* line 128
gcd_return ==
    /\ pc = "gcd_loop"
    /\ ch > Len(chapters)
    /\ pc' = "gcd_enumerate"
    /\ UNCHANGED <<abortSite, page_source, ch, scraped, en, prefixLog>>
    /\ UNCHANGED gcdFrame

\* lines 290-292: for idx, data in enumerate(video_data, 1)
enumerate_video_data ==
    /\ pc = "gcd_enumerate"
    /\ en <= Len(scraped)
    /\ prefixLog' = Append(prefixLog, <<en, scraped[en]>>)
    /\ en' = en + 1
    /\ UNCHANGED <<pc, abortSite, page_source, ch, scraped>>
    /\ UNCHANGED gcdFrame

NextDetails ==
    \/ gcd_chapter
    \/ gcd_return
    \/ enumerate_video_data

SpecDetails == InitDetails /\ [][NextDetails]_vars

-----------------------------------------------------------------------------
(* cli_downloader.py, download_video_manually (lines 221-234) with          *)
(* check_current_files and check_new_files (lines 209-219), called with the *)
(* two locations set.  The downloads directory belongs to the browser and   *)
(* the operator: each os.listdir may find any content.                      *)

DirNames == {"d1", "d2", "d3"}

InitManual ==
    /\ InitCommon
    /\ pc = "mv_click1"
    /\ course_urls = 0
    /\ prefix_option = TRUE
    /\ skip_if_exists = TRUE
    /\ assets = <<>>
    /\ links = <<>>
    /\ page_source = <<>>

mvFrame == <<browserOpen, idx, wistia_id, pageSeen, disk, cfAttempts, apiRequests,
             videoRequests, skippedExisting, prefix_option, skip_if_exists,
             video_lessons, lesson_name, returned, assets, video_url,
             opsOnClosed, course_urls, course_data, ci, downloads,
             download_button_loc, download_button_loc_2, calibrations, clickLog,
             manually_downloaded_files, moveIdx, skipped_data, skipped_file,
             jsonWrites, courseFilesVars, detailsVars, message>>

\* lines 224-227: the first click, the pause, old_files = set(os.listdir(...))
mv_click1_snapshot ==
    /\ pc = "mv_click1"
    /\ \E current_files \in SUBSET DirNames :
          /\ downloads_path' = current_files
          /\ old_files' = current_files
    /\ pc' = "mv_click2"
    /\ UNCHANGED <<abortSite, elapsed, downloaded, prompts>>
    /\ UNCHANGED mvFrame

\* line 228, and the entry of check_new_files (line 213)
mv_click2 ==
    /\ pc = "mv_click2"
    /\ pc' = "check_new_files"
    /\ UNCHANGED <<abortSite, downloads_path, old_files, elapsed, downloaded, prompts>>
    /\ UNCHANGED mvFrame

\* what the comparison of line 216 lets through
differs(current_files, old) == current_files # old

\* lines 214-218: one turn of the loop
check_new_files_poll ==
    /\ pc = "check_new_files"
    /\ elapsed < MaxPolls
    /\ \E current_files \in SUBSET DirNames :
          /\ downloads_path' = current_files
          /\ IF differs(current_files, old_files)
             THEN /\ downloaded' = "True"
                  /\ pc' = "mv_if_not_downloaded"
                  /\ UNCHANGED elapsed
             ELSE /\ elapsed' = elapsed + 1
                  /\ UNCHANGED <<pc, downloaded>>
    /\ UNCHANGED <<abortSite, old_files, prompts>>
    /\ UNCHANGED mvFrame

\* line 219: the loop condition is false
check_new_files_timeout ==
    /\ pc = "check_new_files"
    /\ elapsed >= MaxPolls
    /\ downloaded' = "False"
    /\ pc' = "mv_if_not_downloaded"
    /\ UNCHANGED <<abortSite, downloads_path, old_files, elapsed, prompts>>
    /\ UNCHANGED mvFrame

\* lines 231-232: if not downloaded: input(...)
mv_if_not_downloaded ==
    /\ pc = "mv_if_not_downloaded"
    /\ prompts' = IF downloaded = "False" THEN prompts + 1 ELSE prompts
    /\ pc' = "mv_returned"
    /\ UNCHANGED <<abortSite, downloads_path, old_files, elapsed, downloaded>>
    /\ UNCHANGED mvFrame

NextManual ==
    \/ mv_click1_snapshot
    \/ mv_click2
    \/ check_new_files_poll
    \/ check_new_files_timeout
    \/ mv_if_not_downloaded

SpecManual == InitManual /\ [][NextManual]_vars

-----------------------------------------------------------------------------
(* The claims *)

Terminated == pc \in {"done", "aborted"}

Lessons == { l \in (1..Len(course_data)) \X (1..MaxLessons + 1) :
                l[2] <= Len(course_data[l[1]].video_data) }

Opened(c, i) == \E k \in PageKinds : <<c, i, k>> \in pageSeen

\* the lesson's turn in the loop is over
LessonOver(c, i) ==
    /\ Opened(c, i)
    /\ \/ Terminated
       \/ pc \in {"move_files", "quit"}
       \/ c < ci
       \/ c = ci /\ i < idx

\* files of the course folder that carry the lesson's prefix
LessonFiles(c, i, ext) ==
    { f \in disk : /\ f.course = c
                   /\ HasPrefix(f.name, Fmt02(i) \o <<"-">>)
                   /\ HasSuffix(f.name, ext) }

IsPrefix(s, t) == Len(s) <= Len(t) /\ SubSeq(t, 1, Len(s)) = s

\* C1: every lesson of a CLI run gets exactly one outcome: a lesson whose page
\* has no embedded-video marker has no .mp4, and a lesson whose page carries a
\* video identifier has exactly one .mp4 once its turn is over; so a course of
\* two lessons, one of each kind, ends with one .mp4 and one .html.
C1_OneOutcomePerLesson ==
    \A l \in Lessons :
        /\ (<<l[1], l[2], "text">> \in pageSeen \/ <<l[1], l[2], "none">> \in pageSeen)
              => LessonFiles(l[1], l[2], Mp4) = {}
        /\ (<<l[1], l[2], "video">> \in pageSeen /\ LessonOver(l[1], l[2]))
              => Cardinality(LessonFiles(l[1], l[2], Mp4)) = 1

\* C2: a lesson skipped because its target exists (skip_if_exists) has caused
\* no request to the video-asset API and none to a video URL.
C2_SkipIssuesNoRequest ==
    \A l \in skippedExisting : l \notin apiRequests /\ l \notin videoRequests

C4_EveryFilelessLessonRecorded ==
    pc = "done" =>
        \A l \in Lessons :
            (LessonFiles(l[1], l[2], Mp4) \cup LessonFiles(l[1], l[2], Html) = {})
               => \E k \in 1..Len(skipped_file) : skipped_file[k].lesson_link = l

AttemptsOf(c) == { k \in 1..Len(cfAttempts) : cfAttempts[k][1] = c }

\* C5: the course-files download is attempted only during lesson 1, at most
\* once per course, and exactly once as soon as the turn of lesson 1 is over,
\* whatever the outcome of that lesson.
C5_CourseFilesOncePerCourse ==
    \A c \in 1..Len(course_data) :
        /\ \A k \in AttemptsOf(c) : cfAttempts[k][2] = 1
        /\ Cardinality(AttemptsOf(c)) <= 1
        /\ LessonOver(c, 1) => Cardinality(AttemptsOf(c)) = 1

\* C6: once the lesson loop runs, no failure of a lesson ends the run: the run
\* is never aborted from inside the loop.
C6_LessonFailureNeverAborts ==
    pc = "aborted" => abortSite = "get_course_details"

\* C7: once the login has timed out and the session is closed, no operation is
\* attempted on the session.
C7_NoOperationOnClosedSession ==
    opsOnClosed = 0

C9_SkippedAppendOnlyWrittenAtEnd ==
    /\ [][IsPrefix(skipped_data, skipped_data')]_vars
    /\ [][jsonWrites = 1 =>
             /\ skipped_data' = skipped_data
             /\ skipped_file' = skipped_file
             /\ jsonWrites' = jsonWrites]_vars
    /\ [](/\ jsonWrites <= 1
          /\ jsonWrites = 1 =>
                /\ \A l \in Lessons : Opened(l[1], l[2])
                /\ moveIdx > Len(manually_downloaded_files)
                /\ skipped_file = skipped_data
          /\ jsonWrites = 0 => skipped_file = <<>>
          /\ pc = "done" => jsonWrites = 1)

\* a completed run of two courses whose file holds records of both
C9_Witness ==
    /\ pc = "done"
    /\ Len(skipped_file) >= 2
    /\ skipped_file[1].course_title = 1
    /\ skipped_file[Len(skipped_file)].course_title = 2
    /\ manually_downloaded_files # <<>>

\* C10: for a non-empty asset list get_wistia_video_url returns the url of a
\* descriptor of maximal size, the first such in list order.
C10_FirstMaximalAsset ==
    pc = "wistia_returned" =>
        \E k \in 1..Len(assets) :
            /\ video_url = assets[k].url
            /\ \A j \in 1..Len(assets) : assets[j].size <= assets[k].size
            /\ \A j \in 1..(k - 1) : assets[j].size < assets[k].size

\* a tie between descriptors of different urls, after a smaller first one
C10_Witness ==
    /\ pc = "wistia_returned"
    /\ Len(assets) = 3
    /\ assets[1].size < assets[2].size
    /\ assets[2].size = assets[3].size
    /\ assets[2].url # assets[3].url
    /\ video_url = assets[2].url


\* the anchors whose trimmed text is not empty
NamedAnchors == {i \in 1..Len(links) : Strip(links[i].textContent) # <<>>}

\* C11: when download_course_files has returned, no file of course_files/ comes
\* from an anchor whose trimmed text is empty, each such anchor was logged and
\* passed over, and course_files/ holds as many files as there are anchors
\* with a non-empty trimmed text.
C11_OneFilePerNamedAnchor ==
    pc = "cf_returned" =>
        /\ \A f \in files_path : f.name # <<>> /\ Strip(f.name) = f.name
        /\ Len(skipLog) = Len(links) - Cardinality(NamedAnchors)
        /\ Cardinality(files_path) = Cardinality(NamedAnchors)

\* what holds of the loop: the empty anchors are passed over, and every other
\* trimmed text names one file, which holds the body of the last anchor of
\* that text
CF_LastAnchorOfEachName ==
    pc = "cf_returned" =>
        /\ Len(skipLog) = Len(links) - Cardinality(NamedAnchors)
        /\ {f.name : f \in files_path}
              = {Strip(links[i].textContent) : i \in NamedAnchors}
        /\ Cardinality(files_path)
              = Cardinality({Strip(links[i].textContent) : i \in NamedAnchors})
        /\ \A f \in files_path :
              \E i \in NamedAnchors :
                 /\ Strip(links[i].textContent) = f.name
                 /\ links[i].href = f.url
                 /\ \A j \in NamedAnchors :
                       Strip(links[j].textContent) = f.name => j <= i


\* every chapter heading is followed by a collapsible container of its own:
\* headings and containers alternate, a heading first, a container last
ChapteredPage ==
    LET hs == PositionsOf(page_source, "chapter-heading", 1)
        cs == PositionsOf(page_source, "accordion-collapse", 1)
    IN /\ Len(hs) = Len(cs)
       /\ \A i \in 1..Len(hs) : hs[i] < cs[i]
       /\ \A i \in 1..(Len(hs) - 1) : cs[i] < hs[i + 1]

\* the lesson entries of the page, container after container
RECURSIVE DocumentOrder(_)
DocumentOrder(q) ==
    IF q > Len(page_source) THEN <<>>
    ELSE (IF page_source[q].class = "accordion-collapse"
          THEN LessonEntries(q, page_source[q].count) ELSE <<>>)
         \o DocumentOrder(q + 1)

RECURSIVE LessonCount(_)
LessonCount(q) ==
    IF q > Len(page_source) THEN 0
    ELSE (IF page_source[q].class = "accordion-collapse"
          THEN page_source[q].count ELSE 0) + LessonCount(q + 1)

\* C12: on a page of N chapters whose containers hold c1..cN entries,
\* get_course_details does not raise and returns c1+...+cN pairs, the
\* entries of the page in document order, each one once; the index that
\* enumerate(video_data, 1) gives an entry is its 1-based position.
C12_DocumentOrderEachOnce ==
    ChapteredPage =>
        /\ abortSite # "find_next_sibling"
        /\ pc = "gcd_loop" =>
              scraped = SubSeq(DocumentOrder(1), 1, Len(scraped))
        /\ pc = "gcd_enumerate" =>
              /\ Len(scraped) = LessonCount(1)
              /\ scraped = DocumentOrder(1)
              /\ \A q \in 1..Len(page_source) :
                    page_source[q].class = "accordion-collapse" =>
                       \A j \in 1..page_source[q].count :
                          Cardinality({k \in 1..Len(scraped) :
                                          scraped[k].link = <<q, j>>}) = 1
              /\ \A k \in 1..Len(prefixLog) :
                    prefixLog[k] = <<k, DocumentOrder(1)[k]>>

\* two chapters with entries, all returned and enumerated
C12_Witness ==
    /\ ChapteredPage
    /\ Len(chapters) = 2
    /\ pc = "gcd_enumerate"
    /\ Len(scraped) = 3
    /\ Len(prefixLog) = 3


\* C13: the poll reports a download only when the directory holds a file that
\* was not in the snapshot, and download_video_manually returns without
\* having prompted the operator only when such a file has appeared.
C13_ReportsOnlyNewFiles ==
    /\ downloaded = "True" => downloads_path \ old_files # {}
    /\ (pc = "mv_returned" /\ downloads_path \ old_files = {}) => prompts = 1

\* what holds of the poll: it reports exactly a content other than the
\* snapshot, and the operator is prompted exactly when it reported none
CNF_ReportsAnyChange ==
    /\ downloaded = "True" => downloads_path # old_files
    /\ downloaded = "False" => downloads_path = old_files /\ elapsed = MaxPolls
    /\ pc = "mv_returned" => prompts = (IF downloaded = "False" THEN 1 ELSE 0)
    /\ pc # "mv_returned" => prompts = 0


\* C14: download_course ends the login-not-detected path and the completed
\* path by returning a pair, and index unpacks what it returned without
\* raising.
C14_ReturnsPairIndexUnpacks ==
    /\ abortSite # "TimeoutException"
    /\ pc = "w_returned" => Len(returned) = 2
    /\ abortSite # "index"

\* what holds of the two paths: the only value download_course ever returns
\* is the 32-character str, and index never renders after a call
WEB_NeverRenders ==
    /\ pc = "w_returned" => returned = DownloadCompleted /\ Len(returned) = 32
    /\ pc # "w_rendered"
    /\ message = ""

=============================================================================
